---- MODULE Spec2Model ----
(***************************************************************************)
(* Model of the retrieval-and-ranking pipeline of the SHL assessment       *)
(* recommender: AssessmentVectorStore.filter_by_duration /                 *)
(* search_assessments (vector_store.py), GeminiIntegration's three         *)
(* generation operations (gemini_integration.py) and                       *)
(* SHLRecommendationSystem.get_recommendations (recommendation_system.py). *)
(* Further specifications model _call_with_retry, _embed_texts and the    *)
(* store's load_vector_db / create_vector_db / retrieve, with the startup  *)
(* of SHLRecommendationSystem; the data processor's test-type              *)
(* normalization and record naming (DataProcessor.py) and the metadata     *)
(* written to the index are modelled as functions of a raw record.         *)
(*                                                                         *)
(* Python values are records with one shape, [t, n, s]: t is the type tag  *)
(* ("none", "num", "str"), n the number, s the string as a sequence of     *)
(* one-character strings.  A missing dictionary key read with .get(key)    *)
(* is None, as in the code.                                                *)
(***************************************************************************)
EXTENDS Integers, Sequences, FiniteSets, TLC

VARIABLES
    pc,              \* position of the get_recommendations call
    collection,      \* the index: metadata of the stored documents, by id
    max_results,     \* argument of get_recommendations
    max_duration,    \* result of extract_duration_from_query
    expanded_query,  \* result of expand_query
    retries,         \* _call_with_retry's local attempt counter
    gen_calls,       \* model.generate_content calls made by this request
    embed_calls,     \* genai.embed_content calls made by this request
    index_queries,   \* collection.query calls made by this request
    query_embedding, \* result of _embed_query
    retrieved,       \* documents returned by retrieve
    search_results,  \* result of search_assessments
    unique_results,  \* the deduplicated results
    response,        \* outcome of the ranking call ("" before it)
    ranked_results,  \* result of rank_assessments
    table,           \* rows of the returned DataFrame
    inp,             \* arguments of the function under test (function specs)
    out,             \* its result
    store,           \* the AssessmentVectorStore, its files and its index backend
    task,            \* the store operation under way or last made, and its outcome
    calls            \* the calls get_recommendations has issued to its stages, in order

vars == <<pc, collection, max_results, max_duration, expanded_query,
          retries, gen_calls, embed_calls, index_queries, query_embedding,
              retrieved,
          search_results, unique_results, response, ranked_results, table, inp, out,
          store, task, calls>>

----------------------------------------------------------------------------
(* Python values *)

None == [t |-> "none", n |-> 0, s |-> <<>>]
Num(k) == [t |-> "num", n |-> k, s |-> <<>>]
Str(cs) == [t |-> "str", n |-> 0, s |-> cs]

\* bool(v): None, 0 and "" are falsy
Truthy(v) == \/ v.t = "num" /\ v.n # 0
             \/ v.t = "str" /\ v.s # <<>>

Digits == {"0", "1", "2", "3", "4", "5", "6", "7", "8", "9"}

\* "^2" stands for the one character U+00B2 (superscript two): str.isdigit()
\* accepts it and float() rejects it.
SuperDigits == {"^2"}

DigitVal(c) ==
    CASE c = "0" -> 0 [] c = "1" -> 1 [] c = "2" -> 2 [] c = "3" -> 3
      [] c = "4" -> 4 [] c = "5" -> 5 [] c = "6" -> 6 [] c = "7" -> 7
      [] c = "8" -> 8 [] c = "9" -> 9

\* str.isdigit(): non-empty and every character a digit character
isdigit(cs) == cs # <<>> /\ \A i \in 1..Len(cs) : cs[i] \in Digits \cup SuperDigits

\* s.replace('.', '', 1): the string without its first '.'
RECURSIVE replace_first_dot(_)
replace_first_dot(cs) ==
    IF cs = <<>> THEN <<>>
    ELSE IF Head(cs) = "." THEN Tail(cs)
    ELSE <<Head(cs)>> \o replace_first_dot(Tail(cs))

\* value of a string of decimal digits
RECURSIVE DecValue(_)
DecValue(cs) ==
    IF cs = <<>> THEN 0
    ELSE 10 * DecValue(SubSeq(cs, 1, Len(cs) - 1)) + DigitVal(cs[Len(cs)])

RECURSIVE Pow10(_)
Pow10(k) == IF k = 0 THEN 1 ELSE 10 * Pow10(k - 1)

\* number of characters after the first '.', 0 when there is none
RECURSIVE FracDigits(_)
FracDigits(cs) ==
    IF cs = <<>> THEN 0
    ELSE IF Head(cs) = "." THEN Len(cs) - 1
    ELSE FracDigits(Tail(cs))

\* float(s) for a string that passed the isdigit test: ValueError when a
\* character is no ASCII digit, else the value mant / scale.
float_raises(cs) == \E i \in 1..Len(cs) : cs[i] \in SuperDigits
float_mant(cs) == DecValue(replace_first_dot(cs))
float_scale(cs) == Pow10(FracDigits(cs))

----------------------------------------------------------------------------
(* AssessmentVectorStore.filter_by_duration *)

\* Keeps with < for <=
KeepsStrict(v, m) ==
    IF v.t = "str" /\ isdigit(replace_first_dot(v.s))
    THEN IF float_raises(v.s) THEN TRUE
         ELSE float_mant(v.s) < m * float_scale(v.s)
    ELSE v.t = "num" /\ v.n < m

\* One branch of the loop body (lines 379-389 and 392-399) for the value v
\* read from the metadata: TRUE when the document is appended.
Keeps(v, m) ==
    IF v.t = "str" /\ isdigit(replace_first_dot(v.s))
    THEN IF float_raises(v.s)
         THEN TRUE    \* except (ValueError, TypeError): append
         ELSE float_mant(v.s) <= m * float_scale(v.s)
    ELSE v.t = "num" /\ v.n <= m

\* the if / elif / else of the loop body for one document
DocKept(doc, m) ==
    IF doc.assessment_time # None THEN Keeps(doc.assessment_time, m)
    ELSE IF doc.duration # None THEN Keeps(doc.duration, m)
    ELSE TRUE

filter_by_duration(documents, max_dur) ==
    IF ~Truthy(max_dur) THEN documents
    ELSE SelectSeq(documents, LAMBDA d : DocKept(d, max_dur.n))

----------------------------------------------------------------------------
(* AssessmentVectorStore.search_assessments, after retrieve *)

\* the dictionary built for one document (lines 433-443); the fields the
\* later stages read for names and durations
ToResult(doc) ==
    [name |-> doc.name, duration |-> doc.duration,
     assessment_time |-> doc.assessment_time]

search_from(documents, max_dur) ==
    IF documents = <<>> THEN <<>>
    ELSE LET docs == IF Truthy(max_dur)
                     THEN filter_by_duration(documents, max_dur)
                     ELSE documents
         IN  [i \in 1..Len(docs) |-> ToResult(docs[i])]

----------------------------------------------------------------------------
(* Deduplication loop of get_recommendations *)

\* the loop keeping the last result of a name instead of the first
RECURSIVE DedupKeepsLast(_, _, _)
DedupKeepsLast(results, seen_names, unique) ==
    IF results = <<>> THEN unique
    ELSE LET result == Head(results)
         IN  DedupKeepsLast(Tail(results), seen_names,
                            Append(SelectSeq(unique,
                                             LAMBDA u : u.name # result.name),
                                   result))

RECURSIVE DedupLoop(_, _, _)
DedupLoop(results, seen_names, unique) ==
    IF results = <<>> THEN unique
    ELSE LET result == Head(results)
         IN  IF result.name \notin seen_names
             THEN DedupLoop(Tail(results), seen_names \cup {result.name},
                            Append(unique, result))
             ELSE DedupLoop(Tail(results), seen_names, unique)

Deduplicate(results) == DedupLoop(results, {}, <<>>)

----------------------------------------------------------------------------
(* GeminiIntegration.rank_assessments *)

\* seq[:k] for k >= 0
Take(seq, k) == SubSeq(seq, 1, IF k < Len(seq) THEN k ELSE Len(seq))

\* position of the first element of cs, at or after position from, that is
\* c; 0 when there is none
RECURSIVE IndexFrom(_, _, _)
IndexFrom(cs, c, from) ==
    IF from > Len(cs) THEN 0
    ELSE IF cs[from] = c THEN from
    ELSE IndexFrom(cs, c, from + 1)

\* position of the last element of cs that is c; 0 when there is none
RECURSIVE LastIndex(_, _)
LastIndex(cs, c) ==
    IF cs = <<>> THEN 0
    ELSE IF cs[Len(cs)] = c THEN Len(cs)
    ELSE LastIndex(SubSeq(cs, 1, Len(cs) - 1), c)

\* the greedy pattern r'\[.*\]': from the first '[' to the last ']'
find_json_array_greedy(text) ==
    LET open == IndexFrom(text, "[", 1)
        close == LastIndex(text, "]")
    IN  IF open = 0 \/ close < open THEN <<>> ELSE SubSeq(text, open, close)

\* re.search(r'\[.*?\]', text, re.DOTALL).group(0): from the first '[' to
\* the first ']' after it; <<>> when there is no match
find_json_array(text) ==
    LET open == IndexFrom(text, "[", 1)
        close == IF open = 0 THEN 0 ELSE IndexFrom(text, "]", open + 1)
    IN  IF close = 0 THEN <<>> ELSE SubSeq(text, open, close)

\* the pieces of cs between the commas
RECURSIVE SplitCommas(_)
SplitCommas(cs) ==
    LET k == IndexFrom(cs, ",", 1)
    IN  IF k = 0 THEN <<cs>>
        ELSE <<SubSeq(cs, 1, k - 1)>> \o SplitCommas(SubSeq(cs, k + 1, Len(cs)))

\* integer literals of a parser that takes leading zeros
IsJsonIntLenient(piece) ==
    LET ds == IF piece # <<>> /\ Head(piece) = "-" THEN Tail(piece) ELSE piece
    IN  /\ ds # <<>>
        /\ \A i \in 1..Len(ds) : ds[i] \in Digits

\* a JSON integer literal: an optional '-', then 0 or digits with no leading 0
IsJsonInt(piece) ==
    LET ds == IF piece # <<>> /\ Head(piece) = "-" THEN Tail(piece) ELSE piece
    IN  /\ ds # <<>>
        /\ \A i \in 1..Len(ds) : ds[i] \in Digits
        /\ Len(ds) > 1 => ds[1] # "0"

JsonIntValue(piece) ==
    IF Head(piece) = "-" THEN 0 - DecValue(Tail(piece)) ELSE DecValue(piece)

\* the literal null, one token of the reply
IsJsonNull(piece) == piece = <<"null">>

\* json.loads of the matched text '[' ... ']': ok is FALSE on JSONDecodeError
json_loads(arr) ==
    LET body == SubSeq(arr, 2, Len(arr) - 1)
        pieces == IF body = <<>> THEN <<>> ELSE SplitCommas(body)
    IN  [ok |-> \A i \in 1..Len(pieces) :
                    IsJsonInt(pieces[i]) \/ IsJsonNull(pieces[i]),
         items |-> [i \in 1..Len(pieces) |->
                       IF IsJsonInt(pieces[i])
                       THEN Num(JsonIntValue(pieces[i]))
                       ELSE None]]

\* [i for i in indices if 0 <= i < len(candidates)]
InRange(items, n) ==
    SelectSeq(items, LAMBDA i : 0 <= i.n /\ i.n < n)

\* the fallback without its slice
RankFallbackAll(candidates, max_recommendations) == candidates

\* the fallback of lines 301-303 and of the except clause, lines 305-308
RankFallback(candidates, max_recommendations) ==
    Take(candidates, max_recommendations)

\* lines 290-297 for the parsed list: TypeError (raised is TRUE) when an
\* element is no number, else the candidates at the valid indices
use_indices(candidates, max_recommendations, items) ==
    IF \E k \in 1..Len(items) : items[k].t # "num"
    THEN [raised |-> TRUE, value |-> <<>>]
    ELSE LET valid == Take(InRange(items, Len(candidates)),
                           max_recommendations)
         IN  [raised |-> FALSE,
              value |-> [k \in 1..Len(valid) |-> candidates[valid[k].n + 1]]]

\* rank_assessments from the outcome of the retried call on (lines 273-308);
\* resp is [raised, text]: raised when all the attempts failed
rank_after_call(candidates, max_recommendations, resp) ==
    IF resp.raised THEN RankFallback(candidates, max_recommendations)
    ELSE LET match == find_json_array(resp.text)
         IN  IF match = <<>>
             THEN RankFallback(candidates, max_recommendations)
             ELSE LET parsed == json_loads(match)
                  IN  IF ~parsed.ok
                      THEN RankFallback(candidates, max_recommendations)
                      ELSE LET used == use_indices(candidates,
                                                   max_recommendations,
                                                   parsed.items)
                           IN  IF used.raised
                               THEN RankFallback(candidates,
                                                 max_recommendations)
                               ELSE used.value

\* rank_skips with < for <=
rank_skips_strict(candidates, max_recommendations) ==
    candidates = <<>> \/ Len(candidates) < max_recommendations

\* lines 215-221: TRUE when rank_assessments returns before any model call
rank_skips(candidates, max_recommendations) ==
    candidates = <<>> \/ Len(candidates) <= max_recommendations

\* rank_assessments, given the outcome of the retried call when one is made
rank_assessments(candidates, max_recommendations, resp) ==
    IF rank_skips(candidates, max_recommendations)
    THEN [raised |-> FALSE, value |-> candidates]
    ELSE [raised |-> FALSE,
          value |-> rank_after_call(candidates, max_recommendations, resp)]

----------------------------------------------------------------------------
(* GeminiIntegration._call_with_retry, extract_duration_from_query and     *)
(* expand_query                                                            *)

max_retries == 3

\* a loop test that allows twice the attempts
retry_continues_doubled(r) == r < 2 * max_retries

\* a loop test that lets one more attempt through
retry_continues_inclusive(r) == r <= max_retries

\* the loop test of _call_with_retry after r failed attempts: FALSE when the
\* loop ends and last_exception is raised
retry_continues(r) == r < max_retries

\* outcomes of a retried call: the reply text, or raised after the last retry
Raised == [raised |-> TRUE, text |-> <<>>]
Reply(text) == [raised |-> FALSE, text |-> text]

RECURSIVE lstrip(_)
lstrip(cs) == IF cs # <<>> /\ Head(cs) = " " THEN lstrip(Tail(cs)) ELSE cs

RECURSIVE rstrip(_)
rstrip(cs) ==
    IF cs # <<>> /\ cs[Len(cs)] = " "
    THEN rstrip(SubSeq(cs, 1, Len(cs) - 1))
    ELSE cs

\* str.strip()
strip(cs) == rstrip(lstrip(cs))

LowerChar(c) ==
    CASE c = "N" -> "n" [] c = "O" -> "o" [] c = "E" -> "e" [] OTHER -> c

\* str.lower()
lower(cs) == [i \in 1..Len(cs) |-> LowerChar(cs[i])]

\* int(s) of a stripped string: ValueError unless s is an optional sign and
\* decimal digits, where single underscores may stand between digits
int_parses(cs) ==
    LET ds == IF cs # <<>> /\ Head(cs) \in {"+", "-"} THEN Tail(cs) ELSE cs
    IN  /\ ds # <<>>
        /\ \A i \in 1..Len(ds) : ds[i] \in Digits \cup {"_"}
        /\ ds[1] # "_" /\ ds[Len(ds)] # "_"
        /\ \A i \in 1..Len(ds) - 1 : ~(ds[i] = "_" /\ ds[i + 1] = "_")

int_digits(cs) == SelectSeq(cs, LAMBDA c : c \in Digits)

int_value(cs) ==
    IF Head(cs) = "-" THEN 0 - DecValue(int_digits(cs))
    ELSE DecValue(int_digits(cs))

\* duration_from_text whose except ValueError returns 0
duration_from_text_zero(text) ==
    LET result_text == strip(text)
    IN  IF lower(result_text) = <<"n", "o", "n", "e">> THEN None
        ELSE IF int_parses(result_text) THEN Num(int_value(result_text))
        ELSE Num(0)

\* lines 143-155: the reply text to the constraint
duration_from_text(text) ==
    LET result_text == strip(text)
    IN  IF lower(result_text) = <<"n", "o", "n", "e">> THEN None
        ELSE IF int_parses(result_text) THEN Num(int_value(result_text))
        ELSE None    \* except ValueError

\* extract_duration_from_query from the outcome of its retried call
extract_duration_from_query(resp) ==
    IF resp.raised
    THEN [raised |-> FALSE, value |-> None]    \* except Exception, line 156
    ELSE [raised |-> FALSE, value |-> duration_from_text(resp.text)]

\* expand_query without its except clause
expand_query_propagates(query, resp) ==
    IF resp.raised
    THEN [raised |-> TRUE, value |-> query]
    ELSE [raised |-> FALSE, value |-> strip(resp.text)]

\* expand_query whose except clause returns an empty query
expand_query_empty(query, resp) ==
    IF resp.raised
    THEN [raised |-> FALSE, value |-> <<>>]
    ELSE [raised |-> FALSE, value |-> strip(resp.text)]

\* expand_query from the outcome of its retried call
expand_query(query, resp) ==
    IF resp.raised
    THEN [raised |-> FALSE, value |-> query]    \* except Exception, line 199
    ELSE [raised |-> FALSE, value |-> strip(resp.text)]

----------------------------------------------------------------------------
(* AssessmentVectorStore.retrieve *)

\* n_results of the index query issued by get_recommendations
k_candidates == 30

\* retrieve from the outcome of collection.query: qr is [raised, docs]
retrieve(qr) ==
    IF qr.raised
    THEN [raised |-> FALSE, value |-> <<>>]    \* except Exception, line 353
    ELSE [raised |-> FALSE, value |-> qr.docs]

\* _embed_query: the provider's vector, or the zero vector when it raises
embed_query(provider_ok) == IF provider_ok THEN "vector" ELSE "zero"

----------------------------------------------------------------------------
(* Formatting of the result rows in get_recommendations *)

\* lines 146-153: the value shown in the Duration column and whether
\* " minutes" follows it; "" when neither field is truthy
format_duration(result) ==
    IF Truthy(result.assessment_time)
    THEN [value |-> result.assessment_time,
          minutes |-> result.assessment_time.t = "num"]
    ELSE IF Truthy(result.duration)
    THEN [value |-> result.duration, minutes |-> TRUE]
    ELSE [value |-> Str(<<>>), minutes |-> FALSE]

format_row(result) ==
    [Assessment_Name |-> result.name, Duration |-> format_duration(result)]

format_table(results) == [i \in 1..Len(results) |-> format_row(results[i])]

\* a table without rows
NoMatchEmpty == <<>>

\* the single row returned when search_assessments returns nothing
NoMatchTable ==
    << [Assessment_Name |-> "No matching assessments found",
        Duration |-> [value |-> Str(<<>>), minutes |-> FALSE]] >>

----------------------------------------------------------------------------
(* The request pipeline: one get_recommendations call after another on an  *)
(* initialized system.  An action runs the code from one provider call     *)
(* (generation, embedding + index query) to the next.                      *)

MaxCatalog == 3
MaxResults == 2

\* the query of the request
Query == <<"q">>

\* metadata of catalog documents as stored in the index
Doc(name, assessment_time, duration) ==
    [name |-> name, assessment_time |-> assessment_time, duration |-> duration]

DocKinds ==
    << Doc("A", None, None),
       Doc("A", None, Num(45)),
       Doc("B", None, Num(20)),
       Doc("B", Num(0), Num(45)),
       Doc("C", Str(<<"4", "5">>), Num(20)),
       Doc("C", Str(<<>>), Str(<<>>)) >>

\* The index contents: up to MaxCatalog documents, ids by position.  The
\* order in which a query returns them is chosen by the query, so the
\* catalogs are listed up to reordering.
Catalogs ==
    UNION { { [i \in 1..n |-> DocKinds[f[i]]] :
                f \in { g \in [1..n -> 1..Len(DocKinds)] :
                          \A i \in 1..n - 1 : g[i] <= g[i + 1] } }
            : n \in 0..MaxCatalog }

\* the orders in which a query can return the documents of docs
Orders(docs) ==
    { [i \in 1..Len(docs) |-> docs[p[i]]] :
        p \in { q \in [1..Len(docs) -> 1..Len(docs)] :
                  \A i, j \in 1..Len(docs) : q[i] = q[j] => i = j } }

\* outcomes of collection.query(n_results=k): it raises, or returns the
\* min(k, count) nearest documents, nearest first
QueryOutcomes(docs) ==
    { [raised |-> TRUE, docs |-> <<>>] } \cup
    { [raised |-> FALSE, docs |-> Take(o, k_candidates)] : o \in Orders(docs) }

\* replies of the model to the duration prompt
DurationReplies ==
    { <<"N", "o", "n", "e">>,
      <<" ", "3", "0">>,
      <<"0">>,
      <<"3", "0", " ", "m", "i", "n">> }

\* replies of the model to the expansion prompt
ExpandReplies == { <<" ", "q", "+", " ">> }

\* replies of the model to the ranking prompt, as tokens: brackets, commas,
\* signs, digits, the literal null and other characters
RankReplies ==
    { <<"[", "1", ",", "0", "]">>,
      <<"[", "0", ",", "0", "]">>,
      <<"x", "[", "2", ",", "-", "1", ",", "0", "]", "x">>,
      <<"[", "7", "]">>,
      <<"[", "]">>,
      <<"[", "null", "]">>,
      <<"[", "0", "1", "]">>,
      <<"n", "o">> }

NoResponse == [raised |-> FALSE, text |-> <<>>]
NoArg == <<>>

\* the request's variables before the request
ResetRequest ==
    /\ max_duration' = None
    /\ expanded_query' = <<>>
    /\ retries' = 0
    /\ gen_calls' = 0
    /\ embed_calls' = 0
    /\ index_queries' = 0
    /\ query_embedding' = "unset"
    /\ retrieved' = <<>>
    /\ search_results' = <<>>
    /\ unique_results' = <<>>
    /\ response' = NoResponse
    /\ ranked_results' = <<>>
    /\ table' = <<>>

Init ==
    /\ pc = "idle"
    /\ collection \in Catalogs
    /\ max_results = 1
    /\ max_duration = None
    /\ expanded_query = <<>>
    /\ retries = 0
    /\ gen_calls = 0
    /\ embed_calls = 0
    /\ index_queries = 0
    /\ query_embedding = "unset"
    /\ retrieved = <<>>
    /\ search_results = <<>>
    /\ unique_results = <<>>
    /\ response = NoResponse
    /\ ranked_results = <<>>
    /\ table = <<>>
    /\ inp = NoArg
    /\ out = NoArg
    /\ store = NoArg
    /\ task = NoArg
    /\ calls = <<>>


\* The calls of get_recommendations to its stages, with their arguments
\* line 99
extract_call(query) == [op |-> "extract_duration_from_query", query |-> query]

\* line 103
expand_call(query) == [op |-> "expand_query", query |-> query]

\* a call that searches with the query of the request
search_call_unexpanded(query, max_dur) ==
    [op |-> "search_assessments", query |-> Query, k |-> k_candidates,
     max_duration |-> max_dur]

\* lines 107-111
search_call(query, max_dur) ==
    [op |-> "search_assessments", query |-> query, k |-> k_candidates,
     max_duration |-> max_dur]

\* lines 136-140
rank_call(query, results, max_recommendations) ==
    [op |-> "rank_assessments", query |-> query, search_results |-> results,
     max_recommendations |-> max_recommendations]

\* get_recommendations(query, max_results) is called
Start ==
    /\ pc \in {"idle", "done"}
    /\ \E m \in 1..MaxResults : max_results' = m
    /\ pc' = "extract"
    /\ ResetRequest
    /\ calls' = <<extract_call(Query)>>
    /\ UNCHANGED <<collection, inp, out,
                   store, task>>

\* extract_duration_from_query returns: r is its result
ExtractReturns(r) ==
    IF r.raised
    THEN /\ pc' = "raised"
         /\ UNCHANGED <<max_duration, retries, calls>>
    ELSE /\ pc' = "expand"
         /\ max_duration' = r.value
         /\ retries' = 0
         /\ calls' = Append(calls, expand_call(Query))

\* an attempt of the duration call raises
ExtractFail ==
    /\ pc = "extract"
    /\ retry_continues(retries)
    /\ gen_calls' = gen_calls + 1
    /\ IF retry_continues(retries + 1)
       THEN /\ retries' = retries + 1
            /\ UNCHANGED <<pc, max_duration, calls>>
       ELSE ExtractReturns(extract_duration_from_query(Raised))
    /\ UNCHANGED <<collection, max_results, expanded_query, embed_calls,
                   index_queries, query_embedding, retrieved, search_results,
                   unique_results, response, ranked_results, table, inp, out,
                   store, task>>

\* an attempt of the duration call returns a reply
ExtractReply ==
    /\ pc = "extract"
    /\ retry_continues(retries)
    /\ gen_calls' = gen_calls + 1
    /\ \E text \in DurationReplies :
          ExtractReturns(extract_duration_from_query(Reply(text)))
    /\ UNCHANGED <<collection, max_results, expanded_query, embed_calls,
                   index_queries, query_embedding, retrieved, search_results,
                   unique_results, response, ranked_results, table, inp, out,
                   store, task>>

\* expand_query returns: r is its result
ExpandReturns(r) ==
    IF r.raised
    THEN /\ pc' = "raised"
         /\ UNCHANGED <<expanded_query, retries, calls>>
    ELSE /\ pc' = "search"
         /\ expanded_query' = r.value
         /\ retries' = 0
         /\ calls' = Append(calls, search_call(r.value, max_duration))

\* an attempt of the expansion call raises
ExpandFail ==
    /\ pc = "expand"
    /\ retry_continues(retries)
    /\ gen_calls' = gen_calls + 1
    /\ IF retry_continues(retries + 1)
       THEN /\ retries' = retries + 1
            /\ UNCHANGED <<pc, expanded_query, calls>>
       ELSE ExpandReturns(expand_query(Query, Raised))
    /\ UNCHANGED <<collection, max_results, max_duration, embed_calls,
                   index_queries, query_embedding, retrieved, search_results,
                   unique_results, response, ranked_results, table, inp, out,
                   store, task>>

\* an attempt of the expansion call returns a reply
ExpandReply ==
    /\ pc = "expand"
    /\ retry_continues(retries)
    /\ gen_calls' = gen_calls + 1
    /\ \E text \in ExpandReplies :
          ExpandReturns(expand_query(Query, Reply(text)))
    /\ UNCHANGED <<collection, max_results, max_duration, embed_calls,
                   index_queries, query_embedding, retrieved, search_results,
                   unique_results, response, ranked_results, table, inp, out,
                   store, task>>

\* an attempt of the expansion call returns a response that carries no
\* text: response.text raises at line 197, inside the try of expand_query,
\* and no further attempt is made
ExpandNoText ==
    /\ pc = "expand"
    /\ retry_continues(retries)
    /\ gen_calls' = gen_calls + 1
    /\ ExpandReturns(expand_query(Query, Raised))
    /\ UNCHANGED <<collection, max_results, max_duration, embed_calls,
                   index_queries, query_embedding, retrieved, search_results,
                   unique_results, response, ranked_results, table, inp, out,
                   store, task>>

\* rank_assessments returns r: the rows are formatted and returned
RankReturns(r) ==
    IF r.raised
    THEN /\ pc' = "raised"
         /\ UNCHANGED <<ranked_results, table>>
    ELSE /\ pc' = "done"
         /\ ranked_results' = r.value
         /\ table' = format_table(r.value)

\* search_assessments with the expanded query, then the empty check, the
\* deduplication and, when rank_assessments needs no model call, the rest
Search ==
    /\ pc = "search"
    /\ embed_calls' = embed_calls + 1
    /\ index_queries' = index_queries + 1
    /\ \E provider_ok \in BOOLEAN : query_embedding' = embed_query(provider_ok)
    /\ \E qr \in QueryOutcomes(collection) :
          LET got == retrieve(qr)
              found == search_from(got.value, calls[Len(calls)].max_duration)
              unique == Deduplicate(found)
          IN  IF got.raised
              THEN /\ pc' = "raised"
                   /\ UNCHANGED <<retrieved, search_results, unique_results,
                                  ranked_results, table, calls>>
              ELSE /\ retrieved' = got.value
                   /\ search_results' = found
                   /\ IF found = <<>>
                      THEN /\ pc' = "done"
                           /\ table' = NoMatchTable
                           /\ UNCHANGED <<unique_results, ranked_results,
                                          calls>>
                      ELSE /\ unique_results' = unique
                           /\ calls' = Append(calls, rank_call(
                                                  Query, unique, max_results))
                           /\ IF rank_skips(unique, max_results)
                              THEN RankReturns(rank_assessments(
                                       unique, max_results, NoResponse))
                              ELSE /\ pc' = "rank"
                                   /\ UNCHANGED <<ranked_results, table>>
    /\ UNCHANGED <<collection, max_results, max_duration, expanded_query,
                   retries, gen_calls, response, inp, out,
                   store, task>>

\* an attempt of the ranking call raises
RankFail ==
    /\ pc = "rank"
    /\ retry_continues(retries)
    /\ gen_calls' = gen_calls + 1
    /\ IF retry_continues(retries + 1)
       THEN /\ retries' = retries + 1
            /\ UNCHANGED <<pc, response, ranked_results, table>>
       ELSE /\ retries' = 0
            /\ response' = Raised
            /\ RankReturns(rank_assessments(unique_results, max_results, Raised))
    /\ UNCHANGED <<collection, max_results, max_duration, expanded_query,
                   embed_calls, index_queries, query_embedding, retrieved,
                   search_results, unique_results, inp, out,
                   store, task, calls>>

\* an attempt of the ranking call returns a reply
RankReply ==
    /\ pc = "rank"
    /\ retry_continues(retries)
    /\ gen_calls' = gen_calls + 1
    /\ retries' = 0
    /\ \E text \in RankReplies :
          /\ response' = Reply(text)
          /\ RankReturns(rank_assessments(unique_results, max_results,
                                          Reply(text)))
    /\ UNCHANGED <<collection, max_results, max_duration, expanded_query,
                   embed_calls, index_queries, query_embedding, retrieved,
                   search_results, unique_results, inp, out,
                   store, task, calls>>

Next ==
    \/ Start
    \/ ExtractFail
    \/ ExtractReply
    \/ ExpandFail
    \/ ExpandReply
    \/ ExpandNoText
    \/ Search
    \/ RankFail
    \/ RankReply

Spec == Init /\ [][Next]_vars

\* every provider call a request is waiting for returns or raises
ProviderAnswers ==
    \/ ExtractFail
    \/ ExtractReply
    \/ ExpandFail
    \/ ExpandReply
    \/ ExpandNoText
    \/ Search
    \/ RankFail
    \/ RankReply

SpecLive == Spec /\ WF_vars(ProviderAnswers)

----------------------------------------------------------------------------
(* filter_by_duration as a function: the arguments are drawn by the        *)
(* initial state and FilterCall applies it.                                *)

MaxDocs == 2

FilterChars == {"4", ".", "-", "^2"}

\* metadata values of the duration fields: absent, numbers, and every string
\* of at most two characters
FilterValues ==
    {None} \cup {Num(20), Num(30), Num(45)} \cup
    { Str(cs) : cs \in UNION { [1..n -> FilterChars] : n \in 0..2 } }

\* documents with one duration field, and with both
FilterDocs ==
    { Doc("A", v, d) : v \in FilterValues, d \in {None, Num(20)} } \cup
    { Doc("A", None, d) : d \in FilterValues }

FilterConstraints == {3, 30}

\* the pipeline's variables while a function is under test
PipelineIdle ==
    /\ pc = "idle"
    /\ collection = <<>>
    /\ max_results = 1
    /\ max_duration = None
    /\ expanded_query = <<>>
    /\ retries = 0
    /\ gen_calls = 0
    /\ embed_calls = 0
    /\ index_queries = 0
    /\ query_embedding = "unset"
    /\ retrieved = <<>>
    /\ search_results = <<>>
    /\ unique_results = <<>>
    /\ response = NoResponse
    /\ ranked_results = <<>>
    /\ table = <<>>
    /\ calls = <<>>

\* the store's variables while the pipeline or a function is under test
StoreIdle ==
    /\ store = NoArg
    /\ task = NoArg

InitFilter ==
    /\ PipelineIdle
    /\ StoreIdle
    /\ inp \in [documents : UNION { [1..n -> FilterDocs] : n \in 0..MaxDocs },
                max_duration : FilterConstraints]
    /\ out = [done |-> FALSE, value |-> <<>>]

FilterCall ==
    /\ ~out.done
    /\ out' = [done |-> TRUE,
               value |-> filter_by_duration(inp.documents,
                                            Num(inp.max_duration))]
    /\ UNCHANGED <<inp, pc, collection, max_results, max_duration,
                   expanded_query, retries, gen_calls, embed_calls,
                   index_queries, query_embedding, retrieved, search_results,
                   unique_results, response, ranked_results, table,
                   store, task, calls>>

SpecFilter == InitFilter /\ [][FilterCall]_vars

----------------------------------------------------------------------------
(* rank_assessments as a function of its arguments and of the outcome of   *)
(* its retried model call.                                                 *)

MaxCands == 3
MaxReplyLen == 5

CandNames == <<"A", "B", "C", "D", "E">>

\* the first n of a list of candidates with distinct names
Cands(n) == [i \in 1..n |-> ToResult(Doc(CandNames[i], None, Num(10 * i)))]

RankTokens == {"[", "]", ",", "-", "0", "1", "null"}

\* every reply of at most MaxReplyLen tokens, and the call raising
RankOutcomes ==
    {Raised} \cup
    { Reply(text) : text \in UNION { [1..n -> RankTokens] : n \in 0..MaxReplyLen } }

InitRank ==
    /\ PipelineIdle
    /\ StoreIdle
    /\ inp \in [candidates : { Cands(n) : n \in 0..MaxCands },
                max_recommendations : 1..MaxCands]
    /\ out = [done |-> FALSE, called |-> FALSE, response |-> NoResponse,
              value |-> <<>>]

\* rank_assessments returns before the model call
RankCallSkips ==
    /\ ~out.done
    /\ rank_skips(inp.candidates, inp.max_recommendations)
    /\ out' = [done |-> TRUE, called |-> FALSE, response |-> NoResponse,
               value |-> rank_assessments(inp.candidates,
                                          inp.max_recommendations,
                                          NoResponse).value]
    /\ UNCHANGED <<inp, pc, collection, max_results, max_duration,
                   expanded_query, retries, gen_calls, embed_calls,
                   index_queries, query_embedding, retrieved, search_results,
                   unique_results, response, ranked_results, table,
                   store, task, calls>>

\* rank_assessments makes the model call, whose outcome is resp
RankCallAsks ==
    /\ ~out.done
    /\ ~rank_skips(inp.candidates, inp.max_recommendations)
    /\ \E resp \in RankOutcomes :
          out' = [done |-> TRUE, called |-> TRUE, response |-> resp,
                  value |-> rank_assessments(inp.candidates,
                                             inp.max_recommendations,
                                             resp).value]
    /\ UNCHANGED <<inp, pc, collection, max_results, max_duration,
                   expanded_query, retries, gen_calls, embed_calls,
                   index_queries, query_embedding, retrieved, search_results,
                   unique_results, response, ranked_results, table,
                   store, task, calls>>

NextRank == RankCallSkips \/ RankCallAsks

SpecRank == InitRank /\ [][NextRank]_vars

----------------------------------------------------------------------------
(* _call_with_retry as called, one after the other, by the three           *)
(* operations of a request.  out holds the position: the operation whose   *)
(* call is running, the locals of that call, the attempts made for each    *)
(* operation, the errors its attempts raised and what the call gave back.  *)

Operations == <<"extract_duration_from_query", "expand_query", "rank_assessments">>

\* the exceptions an attempt can raise
RetryErrors == {"quota", "timeout"}

NoException == "None"

\* line 100: the wait after the failure that follows r earlier ones
wait_time(r) == 2 ^ r

\* lines 92-93: the locals at the start of a call
RetryEnter(o) ==
    [op |-> o, retries |-> 0, last_exception |-> NoException, slept |-> 0]

NotReturned == [returned |-> FALSE, raised |-> FALSE, error |-> NoException]

InitRetry ==
    /\ PipelineIdle
    /\ StoreIdle
    /\ inp = NoArg
    /\ out = [call |-> RetryEnter(1),
              attempts |-> [o \in 1..Len(Operations) |-> 0],
              errors |-> [o \in 1..Len(Operations) |-> <<>>],
              results |-> [o \in 1..Len(Operations) |-> NotReturned]]

\* lines 96-103: func raises e
RetryAttemptFails ==
    /\ out.call.op <= Len(Operations)
    /\ retry_continues(out.call.retries)
    /\ \E e \in RetryErrors :
          out' = [out EXCEPT
                    !.call.last_exception = e,
                    !.call.slept = @ + wait_time(out.call.retries),
                    !.call.retries = @ + 1,
                    !.attempts[out.call.op] = @ + 1,
                    !.errors[out.call.op] = Append(@, e)]
    /\ UNCHANGED <<inp, pc, collection, max_results, max_duration,
                   expanded_query, retries, gen_calls, embed_calls,
                   index_queries, query_embedding, retrieved, search_results,
                   unique_results, response, ranked_results, table,
                   store, task, calls>>

\* line 97: func returns, and the next operation makes its call
RetryAttemptReturns ==
    /\ out.call.op <= Len(Operations)
    /\ retry_continues(out.call.retries)
    /\ out' = [out EXCEPT
                 !.call = RetryEnter(out.call.op + 1),
                 !.attempts[out.call.op] = @ + 1,
                 !.results[out.call.op] =
                     [returned |-> TRUE, raised |-> FALSE,
                      error |-> NoException]]
    /\ UNCHANGED <<inp, pc, collection, max_results, max_duration,
                   expanded_query, retries, gen_calls, embed_calls,
                   index_queries, query_embedding, retrieved, search_results,
                   unique_results, response, ranked_results, table,
                   store, task, calls>>

\* lines 105-107: the loop ended; last_exception is raised to the operation,
\* which handles it, and the next operation makes its call
RetryRaises ==
    /\ out.call.op <= Len(Operations)
    /\ ~retry_continues(out.call.retries)
    /\ out' = [out EXCEPT
                 !.call = RetryEnter(out.call.op + 1),
                 !.results[out.call.op] =
                     [returned |-> TRUE, raised |-> TRUE,
                      error |-> out.call.last_exception]]
    /\ UNCHANGED <<inp, pc, collection, max_results, max_duration,
                   expanded_query, retries, gen_calls, embed_calls,
                   index_queries, query_embedding, retrieved, search_results,
                   unique_results, response, ranked_results, table,
                   store, task, calls>>

NextRetry == RetryAttemptFails \/ RetryAttemptReturns \/ RetryRaises

SpecRetry == InitRetry /\ [][NextRetry]_vars

----------------------------------------------------------------------------
(* extract_duration_from_query as a function of the outcome of its retried *)
(* model call.                                                             *)

MaxText == 5

ExtractChars == {" ", "3", "0", "_", "-", "N", "n", "o", "e"}

\* every reply of at most MaxText characters, and the call raising
ExtractOutcomes ==
    {Raised} \cup
    { Reply(text) : text \in UNION { [1..n -> ExtractChars] : n \in 0..MaxText } }

InitExtract ==
    /\ PipelineIdle
    /\ StoreIdle
    /\ inp \in ExtractOutcomes
    /\ out = [done |-> FALSE, raised |-> FALSE, value |-> None]

ExtractCall ==
    /\ ~out.done
    /\ LET r == extract_duration_from_query(inp)
       IN  out' = [done |-> TRUE, raised |-> r.raised, value |-> r.value]
    /\ UNCHANGED <<inp, pc, collection, max_results, max_duration,
                   expanded_query, retries, gen_calls, embed_calls,
                   index_queries, query_embedding, retrieved, search_results,
                   unique_results, response, ranked_results, table,
                   store, task, calls>>

SpecExtract == InitExtract /\ [][ExtractCall]_vars

----------------------------------------------------------------------------
(* _embed_texts and the batches of create_vector_db.  Documents are named  *)
(* by their position in self.documents (from 0); blank is the set of       *)
(* documents whose text is empty or blank, failing the set of documents    *)
(* for which genai.embed_content raises.                                   *)

\* batch_size of _embed_texts
embed_batch_size == 10

\* batch_size of create_vector_db
rebuild_batch_size == 50

\* [0.0] * 768
Zero == [kind |-> "zero", text |-> 0 - 1]

\* result["embedding"] for the text of document d
ProviderVector(d) == [kind |-> "provider", text |-> d]

\* seq[i:i+size], i counted from 0
Slice(seq, i, size) ==
    SubSeq(seq, i + 1, IF i + size < Len(seq) THEN i + size ELSE Len(seq))

\* a batch whose failure keeps the vectors made before it and then appends
\* len(batch) zero vectors
embed_one_batch_partial(batch, blank, failing) ==
    LET bad == { j \in 1..Len(batch) :
                   batch[j] \notin blank /\ batch[j] \in failing }
        first == CHOOSE j \in bad : \A k \in bad : j <= k
    IN  IF bad # {}
        THEN [j \in 1..first - 1 |->
                 IF batch[j] \in blank THEN Zero ELSE ProviderVector(batch[j])]
             \o [j \in 1..Len(batch) |-> Zero]
        ELSE [j \in 1..Len(batch) |->
                 IF batch[j] \in blank THEN Zero ELSE ProviderVector(batch[j])]

\* lines 149-174: one batch of _embed_texts; an exception at any text of the
\* batch discards batch_embeddings and appends len(batch) zero vectors
embed_one_batch(batch, blank, failing) ==
    IF \E j \in 1..Len(batch) : batch[j] \notin blank /\ batch[j] \in failing
    THEN [j \in 1..Len(batch) |-> Zero]
    ELSE [j \in 1..Len(batch) |->
             IF batch[j] \in blank THEN Zero ELSE ProviderVector(batch[j])]

\* the loop of _embed_texts from offset i on
RECURSIVE embed_from(_, _, _, _)
embed_from(texts, i, blank, failing) ==
    IF i >= Len(texts) THEN <<>>
    ELSE embed_one_batch(Slice(texts, i, embed_batch_size), blank, failing)
         \o embed_from(texts, i + embed_batch_size, blank, failing)

embed_texts(texts, blank, failing) == embed_from(texts, 0, blank, failing)

\* self.documents when n documents are loaded
Documents(n) == [d \in 1..n |-> d - 1]

\* lines 229-257: what the batch at offset i hands to collection.add
batch_entries(documents, i, blank, failing) ==
    LET batch == Slice(documents, i, rebuild_batch_size)
        embeddings == embed_texts(batch, blank, failing)
    IN  [j \in 1..Len(batch) |->
            [id |-> i + (j - 1), text |-> batch[j],
             embedding |-> embeddings[j]]]

\* the batches of lines 228-257 from offset i on, every add succeeding
RECURSIVE rebuild_from(_, _, _, _)
rebuild_from(documents, i, blank, failing) ==
    IF i >= Len(documents) THEN <<>>
    ELSE batch_entries(documents, i, blank, failing)
         \o rebuild_from(documents, i + rebuild_batch_size, blank, failing)

MaxEmbedDocs == 50

\* provider failures: none, one document, or two
FailurePatterns(n) ==
    {{}} \cup { {d} : d \in 0..n - 1 } \cup { {0, d} : d \in 1..n - 1 }

\* blank texts: none, the first or the last
BlankPatterns(n) == {{}, {0}, {n - 1}}

InitEmbed ==
    /\ PipelineIdle
    /\ StoreIdle
    /\ inp \in UNION { [n : {n}, blank : BlankPatterns(n),
                        failing : FailurePatterns(n)] : n \in 1..MaxEmbedDocs }
    /\ out = [done |-> FALSE, entries |-> <<>>]

\* the on-the-fly branch of create_vector_db on an empty collection
RebuildOnTheFly ==
    /\ ~out.done
    /\ out' = [done |-> TRUE,
               entries |-> rebuild_from(Documents(inp.n), 0, inp.blank,
                                        inp.failing)]
    /\ UNCHANGED <<inp, pc, collection, max_results, max_duration,
                   expanded_query, retries, gen_calls, embed_calls,
                   index_queries, query_embedding, retrieved, search_results,
                   unique_results, response, ranked_results, table,
                   store, task, calls>>

SpecEmbed == InitEmbed /\ [][RebuildOnTheFly]_vars

\* _embed_texts as a function of the texts and of the provider's failures
InitEmbedTexts ==
    /\ PipelineIdle
    /\ StoreIdle
    /\ inp \in UNION { [n : {n}, blank : BlankPatterns(n),
                        failing : FailurePatterns(n)] : n \in 0..MaxEmbedDocs }
    /\ out = [done |-> FALSE, value |-> <<>>]

EmbedTextsCall ==
    /\ ~out.done
    /\ out' = [done |-> TRUE,
               value |-> embed_texts(Documents(inp.n), inp.blank, inp.failing)]
    /\ UNCHANGED <<inp, pc, collection, max_results, max_duration,
                   expanded_query, retries, gen_calls, embed_calls,
                   index_queries, query_embedding, retrieved, search_results,
                   unique_results, response, ranked_results, table,
                   store, task, calls>>

SpecEmbedTexts == InitEmbedTexts /\ [][EmbedTextsCall]_vars

----------------------------------------------------------------------------
(* AssessmentVectorStore: the object (processed_data_path, documents,      *)
(* collection), the files it reads and the named collection of its client. *)
(* An operation is a set of outcomes, one for each way its environment can *)
(* answer: the store after the call, the exception that left it ("" when   *)
(* it returned) and the value returned.                                    *)
(*   path       processed_data_path is set                                 *)
(*   file_docs  records in the processed data file, -1 when unreadable     *)
(*   snapshot   ids in FinalDataSource/precomputed_embeddings.json, -1     *)
(*              when the file does not exist                               *)
(*   documents  len(self.documents)                                        *)
(*   collection self.collection is set                                     *)
(*   exists     the client holds the named collection                      *)
(*   entries    what the named collection holds                            *)
(*   loads, creates   calls of load_vector_db and of create_vector_db made *)
(*              since the operation under way began                        *)

NoValue == [returned |-> 0, observed |-> 0]

Ok(st) == [st |-> st, error |-> "", value |-> NoValue]
Err(st, e) == [st |-> st, error |-> e, value |-> NoValue]

\* the outcomes in which the call returned, and those in which it raised
Returns(outcomes) == { r \in outcomes : r.error = "" }
Raises(outcomes) == { r \in outcomes : r.error # "" }

\* self.collection.count()
count(st) == Cardinality(st.entries)

\* lines 90-108: the existing collection, or a new one
get_or_create_collection(st) ==
    { Ok([st EXCEPT !.collection = TRUE, !.exists = TRUE]) }

\* lines 110-138
load_processed_data(st) ==
    IF ~st.path THEN { Ok(st) }                     \* return [], line 119
    ELSE IF st.file_docs < 0
    THEN { Err(st, "load_processed_data") }         \* raise, line 138
    ELSE { Ok([st EXCEPT !.documents = st.file_docs]) }

\* the ids, texts and vectors of a precomputed file of k documents
SnapshotEntries(k) ==
    { [id |-> j, text |-> j, embedding |-> [kind |-> "precomputed", text |-> j]]
      : j \in 0..k - 1 }

\* collection.add: the backend fails; or, when an id is already there, the
\* backend rejects the call or leaves the stored entry alone, according to
\* its version; or the entries are added
add(st, new) ==
    LET have == { e.id : e \in st.entries }
        fresh == { e \in new : e.id \notin have }
    IN  { Err(st, "add") } \cup
        IF fresh # new
        THEN { Err(st, "add: existing id"),
               Ok([st EXCEPT !.entries = st.entries \cup fresh]) }
        ELSE { Ok([st EXCEPT !.entries = st.entries \cup new]) }

\* the set of elements of a sequence
Elements(seq) == { seq[j] : j \in 1..Len(seq) }

\* lines 229-257: the batch at offset i; the provider raises for none of its
\* texts or for the first
add_batch(st, i) ==
    UNION { add(st, Elements(batch_entries(Documents(st.documents), i, {}, f)))
            : f \in {{}, {i}} }

\* lines 228-263: the batches from offset i on
RECURSIVE add_batches(_, _)
add_batches(st, i) ==
    IF i >= st.documents THEN { Ok(st) }
    ELSE Raises(add_batch(st, i)) \cup
         UNION { add_batches(r.st, i + rebuild_batch_size)
                 : r \in Returns(add_batch(st, i)) }

\* lines 204-269; an exception is logged and raised again
create_try(st) ==
    IF st.snapshot >= 0
    THEN add(st, SnapshotEntries(st.snapshot))
    ELSE add_batches(st, 0)

\* lines 191-269
create_vector_db(st) ==
    LET called == [st EXCEPT !.creates = @ + 1]
        loaded == IF called.documents = 0 /\ called.path
                  THEN load_processed_data(called)
                  ELSE { Ok(called) }
    IN  Raises(loaded) \cup
        UNION { IF r.st.documents = 0 THEN { r }          \* return, line 199
                ELSE UNION { create_try(g.st)
                             : g \in get_or_create_collection(r.st) }
                : r \in Returns(loaded) }

\* a try block that rebuilds whatever the collection holds
load_try_rebuilds(st) ==
    UNION { IF g.st.path THEN create_vector_db(g.st)
            ELSE { Err(g.st, "empty and no data path") }
            : g \in get_or_create_collection(st) }

\* lines 274-287: the try block of load_vector_db
load_try(st) ==
    UNION { IF count(g.st) = 0
            THEN IF g.st.path THEN create_vector_db(g.st)
                 ELSE { Err(g.st, "empty and no data path") }
            ELSE { g }
            : g \in get_or_create_collection(st) }

\* lines 271-295
load_vector_db(st) ==
    LET tried == load_try([st EXCEPT !.loads = @ + 1])
    IN  Returns(tried) \cup
        UNION { IF r.st.path THEN create_vector_db(r.st) ELSE { r }
                : r \in Raises(tried) }

\* lines 331-355 of retrieve: the try block and its except clause; the
\* value tells how many entries the queried collection held and how many
\* documents came back
retrieve_try(st) ==
    LET held == count(st)
        got == IF held < k_candidates THEN held ELSE k_candidates
        queried == { Err(st, "query"),
                     [st |-> st, error |-> "",
                      value |-> [returned |-> got, observed |-> held]] }
    IN  Returns(queried) \cup
        { Ok(r.st) : r \in Raises(queried) }          \* return [], line 355

\* a retrieve that loads the vector database at every call
retrieve_call_reloads(st) ==
    Raises(load_vector_db(st)) \cup
    UNION { retrieve_try(r.st) : r \in Returns(load_vector_db(st)) }

\* lines 316-355: retrieve(query, k) with k = 30
retrieve_call(st) ==
    IF st.collection THEN retrieve_try(st)
    ELSE Raises(load_vector_db(st)) \cup              \* lines 327-329
         UNION { retrieve_try(r.st) : r \in Returns(load_vector_db(st)) }

\* recommendation_system.py lines 69-85
initialize_system(st) ==
    Returns(load_vector_db(st)) \cup
    UNION { Returns(create_vector_db(r.st)) \cup
            { Err(r2.st, "Could not initialize the recommendation system")
              : r2 \in Raises(create_vector_db(r.st)) }
            : r \in Raises(load_vector_db(st)) }

\* recommendation_system.py lines 25-67: SHLRecommendationSystem(path) with
\* or without GOOGLE_API_KEY in the environment; the vector store object is
\* new, its client's collection is the one of the process
construct(st, api_key, path) ==
    IF ~api_key THEN { Err(st, "Google API key is required") }
    ELSE initialize_system([st EXCEPT !.path = path, !.documents = 0,
                                      !.collection = FALSE])

MaxBatches == 2

\* numbers of records of the processed data file: none, one, and one more
\* than a number of full batches
CatalogSizes == {0} \cup { b * rebuild_batch_size + 1 : b \in 0..MaxBatches }

\* a store object just made, in each environment
NewStores ==
    { [path |-> p, file_docs |-> n, snapshot |-> k, documents |-> 0,
       collection |-> FALSE, exists |-> had # "nothing",
       entries |-> IF had = "catalog"
                   THEN Elements(rebuild_from(Documents(n), 0, {}, {}))
                   ELSE {},
       loads |-> 0, creates |-> 0]
      : p \in BOOLEAN, n \in {0 - 1} \cup CatalogSizes,
        k \in {0 - 1, 1, rebuild_batch_size + 1},
        had \in {"nothing", "empty", "catalog"} }

\* the counters at the start of an operation
Begin(st) == [st EXCEPT !.loads = 0, !.creates = 0]

\* the operation op ended with outcome r
Ends(op, args, r) ==
    /\ store' = r.st
    /\ task' = [op |-> op, args |-> args, error |-> r.error,
                value |-> r.value]

InitStore ==
    /\ PipelineIdle
    /\ inp = NoArg
    /\ out = NoArg
    /\ store \in NewStores
    /\ task = [op |-> "", args |-> NoArg, error |-> "", value |-> NoValue]

Construct ==
    /\ \E api_key \in BOOLEAN, path \in BOOLEAN :
          \E r \in construct(Begin(store), api_key, path) :
              Ends("SHLRecommendationSystem",
                   [api_key |-> api_key, path |-> path], r)
    /\ UNCHANGED <<inp, out, pc, collection, max_results, max_duration,
                   expanded_query, retries, gen_calls, embed_calls,
                   index_queries, query_embedding, retrieved, search_results,
                   unique_results, response, ranked_results, table, calls>>

CallLoad ==
    /\ \E r \in load_vector_db(Begin(store)) : Ends("load_vector_db", NoArg, r)
    /\ UNCHANGED <<inp, out, pc, collection, max_results, max_duration,
                   expanded_query, retries, gen_calls, embed_calls,
                   index_queries, query_embedding, retrieved, search_results,
                   unique_results, response, ranked_results, table, calls>>

CallCreate ==
    /\ \E r \in create_vector_db(Begin(store)) : Ends("create_vector_db", NoArg, r)
    /\ UNCHANGED <<inp, out, pc, collection, max_results, max_duration,
                   expanded_query, retries, gen_calls, embed_calls,
                   index_queries, query_embedding, retrieved, search_results,
                   unique_results, response, ranked_results, table, calls>>

CallRetrieve ==
    /\ \E r \in retrieve_call(Begin(store)) : Ends("retrieve", NoArg, r)
    /\ UNCHANGED <<inp, out, pc, collection, max_results, max_duration,
                   expanded_query, retries, gen_calls, embed_calls,
                   index_queries, query_embedding, retrieved, search_results,
                   unique_results, response, ranked_results, table, calls>>

NextStore == Construct \/ CallLoad \/ CallCreate \/ CallRetrieve

SpecStore == InitStore /\ [][NextStore]_vars

----------------------------------------------------------------------------
(* create_vector_db batch by batch, with retrieve calls of other threads   *)
(* on the same store.  The code takes no lock: between two statements of a *)
(* rebuild any other thread may run.  task holds the position of the       *)
(* rebuild (pc, and the offset i of the next batch) and what the last      *)
(* retrieve of another thread saw.                                         *)

NoRead == [made |-> FALSE, during |-> FALSE, error |-> "", observed |-> 0,
           returned |-> 0, documents |-> 0]

InitRebuild ==
    /\ PipelineIdle
    /\ inp = NoArg
    /\ out = NoArg
    /\ store \in NewStores
    /\ task = [pc |-> "idle", i |-> 0, read |-> NoRead]

\* lines 193-202: create_vector_db is called, loads the documents and gets
\* the collection
RebuildBegin ==
    /\ task.pc \in {"idle", "done", "raised"}
    /\ LET called == [Begin(store) EXCEPT !.creates = 1]
           loaded == IF called.documents = 0 /\ called.path
                     THEN load_processed_data(called)
                     ELSE { Ok(called) }
       IN  \E r \in loaded :
              IF r.error # ""
              THEN /\ store' = r.st
                   /\ task' = [task EXCEPT !.pc = "raised"]
              ELSE IF r.st.documents = 0
              THEN /\ store' = r.st
                   /\ task' = [task EXCEPT !.pc = "done"]
              ELSE \E g \in get_or_create_collection(r.st) :
                      /\ store' = g.st
                      /\ task' = [task EXCEPT !.pc = "batches", !.i = 0]
    /\ UNCHANGED <<inp, out, pc, collection, max_results, max_duration,
                   expanded_query, retries, gen_calls, embed_calls,
                   index_queries, query_embedding, retrieved, search_results,
                   unique_results, response, ranked_results, table, calls>>

\* lines 210-263: one collection.add, of the precomputed file or of the
\* batch at offset i
RebuildBatch ==
    /\ task.pc = "batches"
    /\ \E r \in IF store.snapshot >= 0
                THEN add(store, SnapshotEntries(store.snapshot))
                ELSE add_batch(store, task.i) :
          /\ store' = r.st
          /\ task' = IF r.error # ""
                     THEN [task EXCEPT !.pc = "raised"]
                     ELSE IF store.snapshot >= 0
                             \/ task.i + rebuild_batch_size >= store.documents
                     THEN [task EXCEPT !.pc = "done"]
                     ELSE [task EXCEPT !.i = @ + rebuild_batch_size]
    /\ UNCHANGED <<inp, out, pc, collection, max_results, max_duration,
                   expanded_query, retries, gen_calls, embed_calls,
                   index_queries, query_embedding, retrieved, search_results,
                   unique_results, response, ranked_results, table, calls>>

\* another thread calls retrieve on the store; self.collection is set, so
\* lines 331-355 run on what the collection holds now
ConcurrentRetrieve ==
    /\ store.collection
    /\ \E r \in retrieve_try(store) :
          task' = [task EXCEPT !.read =
                      [made |-> TRUE, during |-> task.pc = "batches",
                       error |-> r.error, observed |-> r.value.observed,
                       returned |-> r.value.returned,
                       documents |-> store.documents]]
    /\ UNCHANGED <<store, inp, out, pc, collection, max_results, max_duration,
                   expanded_query, retries, gen_calls, embed_calls,
                   index_queries, query_embedding, retrieved, search_results,
                   unique_results, response, ranked_results, table, calls>>

NextRebuild == RebuildBegin \/ RebuildBatch \/ ConcurrentRetrieve

SpecRebuild == InitRebuild /\ [][NextRebuild]_vars

----------------------------------------------------------------------------
(* The test-type normalization of AssessmentDataProcessor, applied to a    *)
(* test_type string and then to its own result.  Strings are sequences of  *)
(* characters; the blank is the whitespace of the alphabet.                *)

\* ord(c) for the characters of the alphabet
Ord(c) ==
    CASE c = " " -> 32 [] c = "," -> 44 [] c = "A" -> 65 [] c = "B" -> 66

\* a < b for Python strings
RECURSIVE StrLess(_, _)
StrLess(a, b) ==
    IF b = <<>> THEN FALSE
    ELSE IF a = <<>> THEN TRUE
    ELSE IF Head(a) # Head(b) THEN Ord(Head(a)) < Ord(Head(b))
    ELSE StrLess(Tail(a), Tail(b))

\* the position of s in a sorted list: after every element not above it
RECURSIVE insert_sorted(_, _)
insert_sorted(sorted_list, s) ==
    IF sorted_list = <<>> THEN <<s>>
    ELSE IF StrLess(s, Head(sorted_list)) THEN <<s>> \o sorted_list
    ELSE <<Head(sorted_list)>> \o insert_sorted(Tail(sorted_list), s)

\* sorted(test_types)
RECURSIVE sorted(_)
sorted(test_types) ==
    IF test_types = <<>> THEN <<>>
    ELSE insert_sorted(sorted(SubSeq(test_types, 1, Len(test_types) - 1)),
                       test_types[Len(test_types)])

\* str.split(): the maximal runs of characters that are not whitespace
RECURSIVE split_whitespace(_)
split_whitespace(cs) ==
    LET rest == lstrip(cs)
        k == IndexFrom(rest, " ", 1)
    IN  IF rest = <<>> THEN <<>>
        ELSE IF k = 0 THEN <<rest>>
        ELSE <<SubSeq(rest, 1, k - 1)>>
             \o split_whitespace(SubSeq(rest, k + 1, Len(rest)))

\* ", ".join(parts)
RECURSIVE join_comma_space(_)
join_comma_space(parts) ==
    IF parts = <<>> THEN <<>>
    ELSE IF Len(parts) = 1 THEN parts[1]
    ELSE parts[1] \o <<",", " ">> \o join_comma_space(Tail(parts))

\* [t for t in test_type.split(",")], the pieces left as they are
comma_parts_unstripped(test_type) == SplitCommas(test_type)

\* [t.strip() for t in test_type.split(",")]
comma_parts(test_type) ==
    LET pieces == SplitCommas(test_type)
    IN  [j \in 1..Len(pieces) |-> strip(pieces[j])]

\* DataProcessor.py lines 70-81 and 150-161: test_type_normalized
normalize_test_type(test_type) ==
    IF test_type = <<>> THEN <<>>
    ELSE LET test_types ==
                 IF \E j \in 1..Len(test_type) : test_type[j] = ","
                 THEN comma_parts(test_type)
                 ELSE split_whitespace(test_type)
         IN  join_comma_space(sorted(test_types))

MaxTypeLen == 6

TypeChars == {" ", ",", "A", "B"}

InitNormalize ==
    /\ PipelineIdle
    /\ StoreIdle
    /\ inp \in UNION { [1..n -> TypeChars] : n \in 0..MaxTypeLen }
    /\ out = [done |-> FALSE, once |-> <<>>, twice |-> <<>>]

\* the processor normalizes a test_type, and a later run normalizes the
\* stored result again
NormalizeCall ==
    /\ ~out.done
    /\ LET once == normalize_test_type(inp)
       IN  out' = [done |-> TRUE, once |-> once,
                   twice |-> normalize_test_type(once)]
    /\ UNCHANGED <<inp, pc, collection, max_results, max_duration,
                   expanded_query, retries, gen_calls, embed_calls,
                   index_queries, query_embedding, retrieved, search_results,
                   unique_results, response, ranked_results, table,
                   store, task, calls>>

SpecNormalize == InitNormalize /\ [][NormalizeCall]_vars

----------------------------------------------------------------------------
(* A catalog record on its way through the index: create_vector_db writes  *)
(* its metadata, retrieve reads the metadata back as the index stored it,  *)
(* and filter_by_duration sees that.                                       *)

\* vector_store.py lines 241-246, one metadata value: None becomes "", a
\* number stays, a string is its own str()
index_metadata_value(v) == IF v # None THEN v ELSE Str(<<>>)

\* lines 238-246: the metadata written for one document
index_metadata(doc) ==
    Doc(index_metadata_value(doc.name),
        index_metadata_value(doc.assessment_time),
        index_metadata_value(doc.duration))

InitIndexed ==
    /\ PipelineIdle
    /\ StoreIdle
    /\ inp \in [record : { Doc(Str(<<d.name>>), d.assessment_time, d.duration)
                           : d \in FilterDocs },
                max_duration : FilterConstraints]
    /\ out = [done |-> FALSE, stored |-> NoArg, value |-> <<>>]

\* the record is indexed, retrieved, and filtered under the constraint
IndexAndFilter ==
    /\ ~out.done
    /\ LET stored == index_metadata(inp.record)
       IN  out' = [done |-> TRUE, stored |-> stored,
                   value |-> filter_by_duration(<<stored>>,
                                                Num(inp.max_duration))]
    /\ UNCHANGED <<inp, pc, collection, max_results, max_duration,
                   expanded_query, retries, gen_calls, embed_calls,
                   index_queries, query_embedding, retrieved, search_results,
                   unique_results, response, ranked_results, table,
                   store, task, calls>>

SpecIndexed == InitIndexed /\ [][IndexAndFilter]_vars

----------------------------------------------------------------------------
(* A raw catalog record from the data processor to the result row: the     *)
(* processor builds its canonical text and its metadata, the index stores  *)
(* the metadata, search_assessments builds the candidate and               *)
(* get_recommendations the row.                                            *)

\* a key the dictionary does not have
Missing == [t |-> "missing", n |-> 0, s |-> <<>>]

\* dict.get(key, default) for the value v under the key
get_or(v, default) == IF v = Missing THEN default ELSE v

\* dict.get(key)
get(v) == get_or(v, None)

\* the default name of the canonical text, of the candidate and of the row
UnnamedAssessment == Str(<<"Unnamed Assessment">>)

\* a value inside an f-string
format_value(v) == IF v = None THEN Str(<<"None">>) ELSE v

\* DataProcessor.py line 116: the name in the metadata
metadata_name(assessment) == get_or(assessment.name, Str(<<>>))

\* DataProcessor.py lines 83-123 (and 163-203): the name in the content,
\* and the metadata read by the later stages
process_record(assessment) ==
    [content_name |-> format_value(get_or(assessment.name, UnnamedAssessment)),
     metadata |-> Doc(metadata_name(assessment),
                      get(assessment.assessment_time_duration),
                      get(assessment.duration))]

NameChars == {"A", " "}

\* raw records: the name absent, null, or a string of at most two
\* characters; the duration fields absent, null, a number or a string
RawRecords ==
    [name : {Missing, None}
            \cup { Str(cs) : cs \in UNION { [1..n -> NameChars] : n \in 0..2 } },
     duration : {Missing, None, Num(20), Str(<<"4">>)},
     assessment_time_duration : {Missing, None, Num(20), Str(<<"4">>)}]

InitName ==
    /\ PipelineIdle
    /\ StoreIdle
    /\ inp \in RawRecords
    /\ out = [done |-> FALSE, content_name |-> NoArg, candidates |-> <<>>,
              table |-> <<>>]

\* the record is processed and indexed, found by a search without a
\* duration constraint, and returned as the one row of the table
ProcessAndRecommend ==
    /\ ~out.done
    /\ LET processed == process_record(inp)
           stored == index_metadata(processed.metadata)
           candidates == search_from(<<stored>>, None)
           ranked == rank_assessments(Deduplicate(candidates), 1, NoResponse)
       IN  out' = [done |-> TRUE, content_name |-> processed.content_name,
                   candidates |-> candidates,
                   table |-> format_table(ranked.value)]
    /\ UNCHANGED <<inp, pc, collection, max_results, max_duration,
                   expanded_query, retries, gen_calls, embed_calls,
                   index_queries, query_embedding, retrieved, search_results,
                   unique_results, response, ranked_results, table,
                   store, task, calls>>

SpecName == InitName /\ [][ProcessAndRecommend]_vars

----------------------------------------------------------------------------
(* Properties of filter_by_duration, under SpecFilter *)

Range(seq) == { seq[i] : i \in 1..Len(seq) }

\* the value the filter is said to go by: assessment_time when present,
\* else duration
DurationValue(doc) ==
    IF doc.assessment_time # None THEN doc.assessment_time ELSE doc.duration

\* a string that reads as a non-negative decimal number: digits with at most
\* one point
IsNumericString(cs) ==
    /\ \A i \in 1..Len(cs) : cs[i] \in Digits \cup {"."}
    /\ \E i \in 1..Len(cs) : cs[i] \in Digits
    /\ Cardinality({ i \in 1..Len(cs) : cs[i] = "." }) <= 1

IsNumeric(v) == v.t = "num" \/ (v.t = "str" /\ IsNumericString(v.s))

\* value of v <= m, for a numeric v
NumericAtMost(v, m) ==
    IF v.t = "num" THEN v.n <= m
    ELSE LET digits == SelectSeq(v.s, LAMBDA c : c # ".")
             decimals == Cardinality({ i \in 1..Len(v.s) :
                                         \E j \in 1..i - 1 : v.s[j] = "." })
         IN  DecValue(digits) <= m * Pow10(decimals)

\* C1: for every list of documents and every positive constraint m,
\* filter_by_duration keeps a document whose duration value (assessment_time
\* when present, else duration) is numeric if and only if that value is
\* <= m, and it keeps every document that has neither duration field.
C1_NumericKeptIffWithin ==
    out.done =>
        \A doc \in Range(inp.documents) :
            /\ IsNumeric(DurationValue(doc)) =>
                  (doc \in Range(out.value)
                     <=> NumericAtMost(DurationValue(doc), inp.max_duration))
            /\ (doc.assessment_time = None /\ doc.duration = None) =>
                  doc \in Range(out.value)

\* C1 witness: constraint 30; a document whose assessment_time "44" wins
\* over its duration 20 and is dropped, a document of duration 30 is kept
C1_Witness ==
    /\ out.done
    /\ inp.max_duration = 30
    /\ inp.documents = << Doc("A", Str(<<"4", "4">>), Num(20)),
                          Doc("A", None, Num(30)) >>
    /\ out.value = << Doc("A", None, Num(30)) >>

\* C2: a document whose duration value is present but is a string that does
\* not read as a number is kept under every constraint.
C2_NonNumericKept ==
    out.done =>
        \A doc \in Range(inp.documents) :
            (DurationValue(doc).t = "str"
               /\ ~IsNumericString(DurationValue(doc).s)) =>
                  doc \in Range(out.value)

----------------------------------------------------------------------------
(* Properties of the deduplication, under Spec *)

\* position of the first result of that name
FirstPosition(results, name) ==
    CHOOSE i \in 1..Len(results) :
        /\ results[i].name = name
        /\ \A j \in 1..i - 1 : results[j].name # name

\* C3: the deduplication returns the subsequence made of the first
\* occurrence of each distinct name, in input order: no two retained results
\* share a name, every name of the input is retained exactly once, and of
\* the results of one name the first-encountered is the one retained.
C3_FirstOccurrences ==
    pc \in {"rank", "done"} =>
        /\ \A i, j \in 1..Len(unique_results) :
              unique_results[i].name = unique_results[j].name => i = j
        /\ \A r \in Range(search_results) :
              Cardinality({ i \in 1..Len(unique_results) :
                              unique_results[i].name = r.name }) = 1
        /\ \A i \in 1..Len(unique_results) :
              /\ unique_results[i] \in Range(search_results)
              /\ unique_results[i] =
                    search_results[FirstPosition(search_results,
                                                 unique_results[i].name)]
        /\ \A i, j \in 1..Len(unique_results) :
              i < j => FirstPosition(search_results, unique_results[i].name)
                         < FirstPosition(search_results, unique_results[j].name)

\* C3 witness: two results named B with different durations, the one with
\* assessment_time 0 first; only that one is retained
C3_Witness ==
    /\ pc = "done"
    /\ search_results = << ToResult(Doc("B", Num(0), Num(45))),
                           ToResult(Doc("A", None, None)),
                           ToResult(Doc("B", None, Num(20))) >>
    /\ unique_results = << ToResult(Doc("B", Num(0), Num(45))),
                           ToResult(Doc("A", None, None)) >>

----------------------------------------------------------------------------
(* Properties of rank_assessments, under SpecRank *)

\* the reply holds a '[' with a ']' after it
HasBracketedArray(text) ==
    \E i, j \in 1..Len(text) : i < j /\ text[i] = "[" /\ text[j] = "]"

\* what lies between the first '[' and the first ']' after it
FirstArrayBody(text) ==
    LET i == CHOOSE a \in 1..Len(text) :
                 /\ text[a] = "["
                 /\ \A b \in 1..a - 1 : text[b] # "["
        j == CHOOSE a \in i + 1..Len(text) :
                 /\ text[a] = "]"
                 /\ \A b \in i + 1..a - 1 : text[b] # "]"
    IN  SubSeq(text, i + 1, j - 1)

\* the positions that bound the elements of an array body: before it, its
\* commas, after it
Bounds(body) ==
    {0, Len(body) + 1} \cup { k \in 1..Len(body) : body[k] = "," }

\* the k-th element of a non-empty array body
Element(body, k) ==
    LET from == CHOOSE a \in Bounds(body) :
                    Cardinality({ b \in Bounds(body) : b < a }) = k - 1
        to == CHOOSE a \in Bounds(body) :
                  Cardinality({ b \in Bounds(body) : b < a }) = k
    IN  SubSeq(body, from + 1, to - 1)

ElementCount(body) ==
    IF body = <<>> THEN 0 ELSE Cardinality(Bounds(body)) - 1

\* JSON's integer literals
IsIntegerLiteral(lit) ==
    \E sign \in {<<>>, <<"-">>} :
    \E digits \in { SubSeq(lit, a, Len(lit)) : a \in 1..Len(lit) } :
        /\ lit = sign \o digits
        /\ \A i \in 1..Len(digits) : digits[i] \in Digits
        /\ digits[1] = "0" => Len(digits) = 1

IsJsonValue(lit) == IsIntegerLiteral(lit) \/ lit = <<"null">>

IsJsonArray(body) ==
    \A k \in 1..ElementCount(body) : IsJsonValue(Element(body, k))

IsIntegerArray(body) ==
    \A k \in 1..ElementCount(body) : IsIntegerLiteral(Element(body, k))

IntegerOf(lit) ==
    IF lit[1] = "-" THEN 0 - DecValue(Tail(lit)) ELSE DecValue(lit)

\* the reply cannot be parsed: no bracketed array, invalid JSON, or an
\* element the index arithmetic raises on
Unparsable(text) ==
    \/ ~HasBracketedArray(text)
    \/ ~IsJsonArray(FirstArrayBody(text))
    \/ ~IsIntegerArray(FirstArrayBody(text))

\* C4: when the number of candidates is <= max_recommendations,
\* rank_assessments returns the candidate list unchanged and makes no call to
\* the generative model.
C4_SkipUnchanged ==
    (out.done /\ Len(inp.candidates) <= inp.max_recommendations) =>
        /\ out.value = inp.candidates
        /\ ~out.called

\* C4 witness: three candidates and room for three
C4_Witness ==
    /\ out.done
    /\ Len(inp.candidates) = 3
    /\ inp.max_recommendations = 3
    /\ out.value = inp.candidates
    /\ ~out.called

\* C5: with more candidates than max_recommendations, when the ranking call
\* raises or its reply cannot be parsed, rank_assessments returns exactly the
\* first max_recommendations candidates in their order.
C5_FallbackIsPrefix ==
    (/\ out.done
     /\ Len(inp.candidates) > inp.max_recommendations
     /\ out.response.raised \/ Unparsable(out.response.text)) =>
        /\ Len(out.value) = inp.max_recommendations
        /\ \A k \in 1..inp.max_recommendations :
              out.value[k] = inp.candidates[k]

\* C5 witness: three candidates, room for two, the reply "[01]" is no JSON
C5_Witness ==
    /\ out.done
    /\ Len(inp.candidates) = 3
    /\ inp.max_recommendations = 2
    /\ out.response = Reply(<<"[", "0", "1", "]">>)
    /\ out.value = SubSeq(inp.candidates, 1, 2)

\* the integers of an integer array, in order
ReplyIndices(text) ==
    LET body == FirstArrayBody(text)
    IN  [k \in 1..ElementCount(body) |-> IntegerOf(Element(body, k))]

\* C6: when the reply holds a parsable JSON array of integers,
\* rank_assessments returns the candidates at those indices in the model's
\* order, after discarding every index outside 0..len(candidates)-1 and then
\* truncating to max_recommendations; the result has length <=
\* max_recommendations and every element is one of the input candidates.
C6_RankedByIndices ==
    (/\ out.done
     /\ out.called
     /\ ~out.response.raised
     /\ ~Unparsable(out.response.text)) =>
        LET valid == SelectSeq(ReplyIndices(out.response.text),
                               LAMBDA i : i \in 0..Len(inp.candidates) - 1)
            kept == IF Len(valid) <= inp.max_recommendations
                    THEN Len(valid) ELSE inp.max_recommendations
        IN  /\ Len(out.value) = kept
            /\ \A k \in 1..kept : out.value[k] = inp.candidates[valid[k] + 1]
            /\ Len(out.value) <= inp.max_recommendations
            /\ \A k \in 1..Len(out.value) : out.value[k] \in Range(inp.candidates)

\* C6 witness: three candidates, room for two, the reply "[1,0]"
C6_Witness ==
    /\ out.done
    /\ Len(inp.candidates) = 3
    /\ inp.max_recommendations = 2
    /\ out.response = Reply(<<"[", "1", ",", "0", "]">>)
    /\ out.value = << inp.candidates[2], inp.candidates[1] >>

----------------------------------------------------------------------------
(* Properties of get_recommendations, under Spec *)

\* C7: for every query, every max_results >= 1 and every behaviour of the
\* providers, the list returned by get_recommendations holds no two
\* recommendations with the same assessment name.
C7_NoDuplicateNames ==
    pc = "done" =>
        \A i, j \in 1..Len(table) :
            table[i].Assessment_Name = table[j].Assessment_Name => i = j

\* C8: whenever duration extraction yields an integer d, no recommendation of
\* the returned list has a numeric duration greater than d, the duration of
\* a recommendation being the value its row displays.
C8_WithinExtractedDuration ==
    (pc = "done" /\ max_duration.t = "num") =>
        \A i \in 1..Len(table) :
            IsNumeric(table[i].Duration.value) =>
                NumericAtMost(table[i].Duration.value, max_duration.n)

\* C9: for every query, every max_results >= 1 and every behaviour of the
\* providers, the list returned by get_recommendations has at most
\* max_results rows.
C9_AtMostMaxResults ==
    pc = "done" => Len(table) <= max_results

\* C9 witness: three distinct names found, two asked for, two returned after
\* the ranking call failed on every attempt
C9_Witness ==
    /\ pc = "done"
    /\ max_results = 2
    /\ Len(unique_results) = 3
    /\ response.raised
    /\ Len(table) = 2

\* C10: for every pattern of provider failures during one request,
\* get_recommendations returns a result table and never raises.
C10_NeverRaises ==
    /\ pc \in {"idle", "extract", "expand", "search", "rank", "done"}
    /\ pc = "done" => table = NoMatchTable \/ table = format_table(ranked_results)

\* C10 witness: a request that returned rows although each of the three
\* generation operations used all its attempts, the ranking call failing on
\* the last one too, and the query embedding failed
C10_Witness ==
    /\ pc = "done"
    /\ gen_calls = 3 * max_retries
    /\ response.raised
    /\ query_embedding = "zero"
    /\ Len(table) >= 1
    /\ table # NoMatchTable

----------------------------------------------------------------------------
(* Properties of _call_with_retry, under SpecRetry *)

\* C11: one operation's call invokes the provider at most max_retries (3)
\* times; the call raises exactly when all 3 attempts failed, and then raises
\* the error of the last attempt; the attempt counter of the running call
\* counts the failures of that operation only, whatever the earlier
\* operations of the request went through.
C11_RetryBoundedPerOperation ==
    \A o \in 1..Len(Operations) :
        /\ out.attempts[o] <= 3
        /\ Len(out.errors[o]) <= out.attempts[o]
        /\ out.results[o].raised =>
              /\ out.attempts[o] = 3
              /\ Len(out.errors[o]) = 3
              /\ out.results[o].error = out.errors[o][3]
        /\ (out.results[o].returned /\ Len(out.errors[o]) = 3) =>
              out.results[o].raised
        /\ out.call.op = o => out.call.retries = Len(out.errors[o])
        /\ out.call.op < o => out.attempts[o] = 0

\* the request is over: the first operation got a reply on its third
\* attempt, the second one used up its three attempts, whose last error
\* differs from the first, and the third failed once
C11_Witness ==
    /\ out.call.op = Len(Operations) + 1
    /\ out.attempts = <<3, 3, 2>>
    /\ ~out.results[1].raised
    /\ out.results[2].raised
    /\ out.errors[2] = <<"quota", "quota", "timeout">>
    /\ out.results[2].error = "timeout"
    /\ ~out.results[3].raised

----------------------------------------------------------------------------
(* Properties of expand_query, under Spec *)

\* C12: whenever the expansion fails (the retried call used up its attempts,
\* or the response carries no text), expand_query does not raise and what it
\* returns is the original query, unmodified.
C12_ExpandFallsBackToQuery ==
    [][ ((ExpandFail \/ ExpandNoText) /\ pc' # "expand")
            => (pc' = "search" /\ expanded_query' = Query) ]_vars

\* the expansion failed on its third attempt and the search goes on with the
\* original query
C12_Witness ==
    /\ pc = "search"
    /\ expanded_query = Query
    /\ gen_calls >= max_retries

----------------------------------------------------------------------------
(* Properties of extract_duration_from_query, under SpecExtract *)

\* the text without its leading and trailing blanks
Trimmed(text) ==
    LET inked == { i \in 1..Len(text) : text[i] # " " }
    IN  IF inked = {} THEN <<>>
        ELSE SubSeq(text, CHOOSE i \in inked : \A j \in inked : i <= j,
                          CHOOSE i \in inked : \A j \in inked : j <= i)

\* an optional sign followed by one or more decimal digits
IsDecimalInteger(t) ==
    LET body == IF t # <<>> /\ t[1] \in {"+", "-"} THEN SubSeq(t, 2, Len(t))
                ELSE t
    IN  body # <<>> /\ \A i \in 1..Len(body) : body[i] \in Digits

\* the integer written by the digits of t, which may hold underscores
RECURSIVE Magnitude(_)
Magnitude(t) ==
    IF t = <<>> THEN 0
    ELSE LET init == SubSeq(t, 1, Len(t) - 1)
             last == t[Len(t)]
         IN  IF last \in Digits THEN 10 * Magnitude(init) + DigitVal(last)
             ELSE Magnitude(init)

SignedValue(t) == IF t[1] = "-" THEN 0 - Magnitude(t) ELSE Magnitude(t)

\* an optional sign followed by groups of decimal digits that single
\* underscores separate
IsGroupedInteger(t) ==
    LET body == IF t # <<>> /\ t[1] \in {"+", "-"} THEN SubSeq(t, 2, Len(t))
                ELSE t
    IN  /\ body # <<>>
        /\ \A i \in 1..Len(body) :
              \/ body[i] \in Digits
              \/ /\ body[i] = "_"
                 /\ 1 < i /\ i < Len(body)
                 /\ body[i - 1] \in Digits /\ body[i + 1] \in Digits

\* C13 as stated: the integer n when the trimmed reply is the decimal integer
\* n, and no constraint, without raising, for the sentinel and for every
\* other reply text.
C13_DecimalIntegerOrNone ==
    (out.done /\ ~inp.raised) =>
        /\ ~out.raised
        /\ IF IsDecimalInteger(Trimmed(inp.text))
           THEN out.value = Num(SignedValue(Trimmed(inp.text)))
           ELSE out.value = None

\* C13 (amended): the integer n when the trimmed reply writes n as an
\* optional sign and decimal digits in which single underscores may separate
\* digits (the texts int() accepts); no constraint, without raising, for the
\* sentinel, for every other reply text and when the call fails.
C13_GroupedIntegerOrNone ==
    out.done =>
        /\ ~out.raised
        /\ IF ~inp.raised /\ IsGroupedInteger(Trimmed(inp.text))
           THEN out.value = Num(SignedValue(Trimmed(inp.text)))
           ELSE out.value = None

\* a reply with blanks around a negative number written with an underscore
C13_Witness ==
    /\ out.done
    /\ inp = Reply(<<" ", "-", "3", "_", "0">>)
    /\ out.value = Num(0 - 30)

----------------------------------------------------------------------------
(* Properties of the empty result, under Spec *)

\* retrieval gave nothing, or the duration filter removed all of it
NothingLeft ==
    \/ retrieved = <<>>
    \/ filter_by_duration(retrieved, max_duration) = <<>>

\* C14: when retrieval yields no documents or the duration filter removes
\* every one of them, the request ends with the single row "No matching
\* assessments found", without raising and without a ranking call: the
\* ranking step is never entered and no ranking response exists.
C14_EmptyResultRow ==
    /\ pc = "rank" => ~NothingLeft
    /\ (pc = "done" /\ NothingLeft) =>
          /\ Len(table) = 1
          /\ table[1].Assessment_Name = "No matching assessments found"
          /\ table[1].Duration.value = Str(<<>>)
          /\ response = NoResponse
          /\ ranked_results = <<>>
          /\ gen_calls <= 2 * max_retries

\* documents were retrieved and the filter removed every one of them
C14_Witness ==
    /\ pc = "done"
    /\ retrieved # <<>>
    /\ Truthy(max_duration)
    /\ search_results = <<>>
    /\ Len(table) = 1
    /\ table[1].Assessment_Name = "No matching assessments found"

----------------------------------------------------------------------------
(* Properties of the embedding of a rebuild batch, under SpecEmbed *)

\* C16: when the provider raises for exactly one document of a batch of 50,
\* the rebuild indexes all 50 documents, the failing one with a zero vector
\* and each of the other 49 with the vector the provider computed for it.
C16_OneFailureOneZeroVector ==
    (out.done /\ inp.n = 50 /\ inp.blank = {} /\ Cardinality(inp.failing) = 1)
        => /\ Len(out.entries) = 50
           /\ \A j \in 1..50 :
                 /\ out.entries[j].text \in inp.failing
                       => out.entries[j].embedding.kind = "zero"
                 /\ out.entries[j].text \notin inp.failing
                       => /\ out.entries[j].embedding.kind = "provider"
                          /\ out.entries[j].embedding.text = out.entries[j].text

----------------------------------------------------------------------------
(* Properties of the vector store's operations, under SpecStore *)

\* C15: whatever fails during retrieve (the lazy load of a collection that
\* was never opened included), retrieve does not raise: it returns, and
\* after a failure what it returns is the empty list.
C15_RetrieveNeverRaises ==
    task.op = "retrieve" => task.error = ""

\* the index is empty and the configuration cannot fill it: the credential
\* is missing, or the data path is not set or names no readable file
ConfigurationError(args, st) ==
    \/ ~args.api_key
    \/ /\ st.entries = {}
       /\ ~args.path \/ st.file_docs < 0

\* C17: with a missing credential, or with an empty index and a data path
\* that is missing or not configured, constructing SHLRecommendationSystem
\* fails with an error, after at most one load and one rebuild attempt.
C17_ConfigErrorFatalNoRetry ==
    [][ (task'.op = "SHLRecommendationSystem"
            /\ ConfigurationError(task'.args, store))
          => /\ task'.error # ""
             /\ store'.loads <= 1
             /\ store'.creates <= 1 ]_vars

OneEntryPerDocument(st) ==
    /\ Cardinality(st.entries) = st.documents
    /\ \A d \in 0..st.documents - 1 :
          \E e \in st.entries : e.id = d /\ e.text = d
    /\ \A e, f \in st.entries : e.id = f.id => e = f

\* C20: after a rebuild that computed its embeddings on the fly and ended
\* without a failure of the backend (it returned, or it only ran into what an
\* earlier rebuild had stored), the index holds exactly one entry per
\* catalog document, with pairwise distinct ids.
C20_OneEntryPerDocument ==
    (/\ task.op = "create_vector_db"
     /\ task.error \in {"", "add: existing id"}
     /\ store.snapshot < 0
     /\ store.documents > 0)
        => OneEntryPerDocument(store)

----------------------------------------------------------------------------
(* Properties of a rebuild with concurrent reads, under SpecRebuild *)

\* C19: a retrieve that runs while create_vector_db is inserting its batches
\* never queries a collection that holds some but not all of the documents
\* being indexed.
C19_NoReadMidRebuild ==
    (task.read.made /\ task.read.during /\ store.snapshot < 0)
        => task.read.observed \notin 1..task.read.documents - 1


----------------------------------------------------------------------------
(* Properties of the precomputed snapshot, under SpecStore *)

\* C21: after a rebuild that returned, the index holds precomputed
\* embeddings only if the snapshot's ids are the ids doc_0..doc_{n-1} of the
\* n loaded documents; with a snapshot whose ids do not match, every loaded
\* document is in the index with an embedding computed on the fly.
C21_PrecomputedOnlyWhenIdsMatch ==
    (/\ task.op = "create_vector_db"
     /\ task.error = ""
     /\ store.documents > 0
     /\ store.snapshot >= 0
     /\ store.snapshot # store.documents)
        => /\ \A e \in store.entries : e.embedding.kind # "precomputed"
           /\ \A d \in 0..store.documents - 1 :
                 \E e \in store.entries : e.id = d


----------------------------------------------------------------------------
(* Properties of the test-type normalization, under SpecNormalize *)

\* C22: normalizing a normalized test type returns it unchanged, for every
\* input string; "B, A" and "A B" both normalize to "A, B".
C22_NormalizeIdempotent ==
    out.done =>
        /\ out.twice = out.once
        /\ inp \in {<<"B", ",", " ", "A">>, <<"A", " ", "B">>}
              => out.once = <<"A", ",", " ", "B">>

\* "B, A" was normalized to "A, B", and "A, B" to itself
C22_Witness ==
    /\ out.done
    /\ inp = <<"B", ",", " ", "A">>
    /\ out.once = <<"A", ",", " ", "B">>
    /\ out.twice = out.once


----------------------------------------------------------------------------
(* Properties of filtering what the index stored, under SpecIndexed *)

\* C23: a record with neither duration field is kept by the duration filter
\* under every constraint after its metadata went through the index-write
\* conversion, and a record with only a plain duration of 20 is kept under
\* the constraint 30.
C23_NoDurationKeptAfterIndexing ==
    out.done =>
        /\ (inp.record.assessment_time = None /\ inp.record.duration = None)
              => out.value = <<out.stored>>
        /\ (/\ inp.record.assessment_time = None
            /\ inp.record.duration = Num(20)
            /\ inp.max_duration = 30)
              => out.value = <<out.stored>>


----------------------------------------------------------------------------
(* Properties of the order of the stages, under Spec *)

\* the stages of a request, in the order of the control flow
StageOrder ==
    <<"extract_duration_from_query", "expand_query", "search_assessments",
      "rank_assessments">>

\* C24: in every get_recommendations run the stages are called in the order
\* duration extraction, query expansion, retrieval with filtering,
\* deduplication, re-ranking, formatting, each at most once; retrieval is
\* called with the expanded query and the extracted constraint, re-ranking
\* with the original query and the deduplicated list, and rows are formatted
\* only when the run ends.
C24_StagesInOrder ==
    /\ Len(calls) <= Len(StageOrder)
    /\ \A i \in 1..Len(calls) : calls[i].op = StageOrder[i]
    /\ pc = "extract" => Len(calls) = 1
    /\ pc = "expand" => Len(calls) = 2
    /\ pc = "search" => Len(calls) = 3
    /\ pc = "rank" => Len(calls) = 4
    /\ pc = "done" => Len(calls) \in {3, 4}
    /\ Len(calls) >= 1 => calls[1].query = Query
    /\ Len(calls) >= 2 => calls[2].query = Query
    /\ Len(calls) >= 3 =>
          /\ calls[3].query = expanded_query
          /\ calls[3].max_duration = max_duration
          /\ search_results = search_from(retrieved, max_duration)
    /\ Len(calls) >= 4 =>
          /\ calls[4].query = Query
          /\ calls[4].search_results = Deduplicate(search_results)
          /\ calls[4].search_results = unique_results
    /\ table # <<>> => pc = "done"
    /\ (pc = "done" /\ Len(calls) = 4) => table = format_table(ranked_results)

\* a run ended after all stages: the expansion changed the query, a
\* constraint was extracted, deduplication removed a result and the model
\* was asked to rank
C24_Witness ==
    /\ pc = "done"
    /\ Len(calls) = 4
    /\ calls[3].query # Query
    /\ calls[3].max_duration = Num(30)
    /\ Len(calls[4].search_results) < Len(search_results)
    /\ response # NoResponse
    /\ table # <<>>


----------------------------------------------------------------------------
(* Properties of the returned table, under Spec *)

\* C25: get_recommendations never returns a table without rows: when the
\* final list of recommendations is empty (nothing retrieved, everything
\* filtered out, or no candidate left by the ranking step) the table is the
\* single "No matching assessments found" row, and otherwise it holds at
\* least one recommendation.
C25_NeverEmptyTable ==
    pc = "done" =>
        /\ table # <<>>
        /\ ranked_results = <<>> => table = NoMatchTable
        /\ ranked_results # <<>> => table = format_table(ranked_results)


----------------------------------------------------------------------------
(* Properties of _embed_texts, under SpecEmbedTexts *)

\* C26: for every list of texts and every pattern of provider failures,
\* _embed_texts returns one vector per text, the vector at position i being
\* the provider's vector for text i or the zero vector; no position is
\* dropped or duplicated.
C26_OneVectorPerText ==
    out.done =>
        /\ Len(out.value) = inp.n
        /\ \A i \in 1..Len(out.value) :
              out.value[i] \in {Zero, ProviderVector(Documents(inp.n)[i])}
        /\ \A i \in 1..Len(out.value) :
              Documents(inp.n)[i] \in inp.blank => out.value[i] = Zero

\* 25 texts, the provider failing for one text of the second batch: zero
\* vectors and provider vectors, one for each text
C26_Witness ==
    /\ out.done
    /\ inp.n = 25
    /\ inp.failing = {12}
    /\ Len(out.value) = 25
    /\ out.value[13] = Zero
    /\ out.value[1] = ProviderVector(0)
    /\ out.value[25] = ProviderVector(24)


----------------------------------------------------------------------------
(* Properties of the waits of _call_with_retry, under SpecRetry *)

\* the waits between the first k attempts of a call: 1, then 2, doubling
RECURSIVE WaitsBetween(_)
WaitsBetween(k) == IF k <= 1 THEN 0 ELSE WaitsBetween(k - 1) + 2 ^ (k - 2)

\* C27: within one retried call the time waited is the time between
\* consecutive attempts, 1 unit before the second attempt and 2 before the
\* third: after k failed attempts with another attempt to come it is the
\* waits between k + 1 attempts, and after the last attempt nothing more is
\* waited; a call that returned on its attempt k made exactly k calls.
C27_WaitsOnlyBetweenAttempts ==
    /\ out.call.op <= Len(Operations) =>
          out.call.slept =
              IF out.call.retries < max_retries
              THEN WaitsBetween(out.call.retries + 1)
              ELSE WaitsBetween(out.call.retries)
    /\ \A o \in 1..Len(Operations) :
          (out.results[o].returned /\ ~out.results[o].raised)
              => out.attempts[o] = Len(out.errors[o]) + 1


----------------------------------------------------------------------------
(* Properties of the name of a record, under SpecName *)

\* C28: a catalog record without a name carries the name "Unnamed
\* Assessment" in its canonical text, in the candidate returned by
\* search_assessments and in the result row, and nowhere an empty name.
C28_UnnamedEverywhere ==
    (out.done /\ inp.name = Missing) =>
        /\ out.content_name = UnnamedAssessment
        /\ Len(out.candidates) = 1
        /\ out.candidates[1].name = UnnamedAssessment
        /\ Len(out.table) = 1
        /\ out.table[1].Assessment_Name = UnnamedAssessment


----------------------------------------------------------------------------
(* Properties of requests on an initialized system, under SpecStore.  The  *)
(* store is reached by get_recommendations through search_assessments and  *)
(* its retrieve call only.                                                 *)

----------------------------------------------------------------------------
(* Properties of termination and of the calls of a request, under SpecLive *)

\* C30: when every provider call returns or raises, every
\* get_recommendations call completes, and a request makes at most 9
\* generation calls, at most 1 query-embedding call and at most 1 index
\* query.
C30_CompletesWithinBudget ==
    /\ [](gen_calls <= 9 /\ embed_calls <= 1 /\ index_queries <= 1)
    /\ (pc \in {"extract", "expand", "search", "rank"})
          ~> (pc \in {"done", "raised"})

\* a request completed after three failed attempts of each of its three
\* generation operations, one query embedding and one index query
C30_Witness ==
    /\ pc = "done"
    /\ gen_calls = 9
    /\ embed_calls = 1
    /\ index_queries = 1
    /\ table # <<>>

====
